---- MODULE Spec2Model ----
(***************************************************************************)
(* AI Hangout AWS backup & sync: the client of aws_sync.py                 *)
(* (AIHangoutAWSSync) and the poll loop of backup_scheduler.py.            *)
(*                                                                         *)
(* The clock `now` counts ticks of the machine clock (datetime.utcnow());  *)
(* TicksPerSecond ticks make one second, so that isoformat() timestamps    *)
(* (full resolution) and int(....timestamp()) (whole seconds) differ.      *)
(* The external services are modelled by what the code sends them: the     *)
(* object store is the set of objects put, the table the set of rows put,  *)
(* the upstream API the JSON bodies it serves.                             *)
(***************************************************************************)
EXTENDS Integers, Sequences, FiniteSets, TLC

\* Bounds of the model.
MaxOps == 2
MaxElapsed == 2
TicksPerSecond == 2
MaxPolls == 722

\* Program constants.
DaySeconds == 86400
CoarseHours == 6
FineMinutes == 30
PollSeconds == 60

VARIABLES
    now,          \* machine clock, in ticks
    clients,      \* self.s3, self.lambda_client, self.bedrock, self.dynamodb (TRUE: set)
    problemsApi,  \* what GET /api/problems serves
    learningApi,  \* what GET /api/ai/learning-data serves
    store,        \* objects of the bucket: [Key, Body]
    table,        \* rows of the DynamoDB table
    last,         \* the latest client operation: its inputs, result and effects
    prev,         \* the operation before it
    opCount,      \* operations issued so far
    pc,           \* position of backup_scheduler.main
    jobs,         \* schedule's jobs: job -> [next_run, last_run]
    pending,      \* run_pending: the due jobs still to run in this poll tick
    running,      \* each scheduled action: "idle", "running" or "done" (about to return)
    files,        \* the backup_summary_<epoch>.json files: [name, content]
    completed,    \* the coarse actions that ran to completion: what each returned
    tick          \* bookkeeping of the current poll tick

schedVars == <<pc, jobs, pending, running, files, completed, tick>>
vars == <<now, clients, problemsApi, learningApi, store, table, last, prev, opCount,
          pc, jobs, pending, running, files, completed, tick>>

----------------------------------------------------------------------------
(* Clock and formatting *)

DayTicks == DaySeconds * TicksPerSecond
ClockStart == DayTicks - 1
ClockEnd == ClockStart + MaxElapsed

\* datetime.utcnow().strftime('%Y/%m/%d'): the calendar day of a clock reading.
StrfDay(t) == t \div DayTicks

\* int(datetime.utcnow().timestamp()): the whole epoch second of a clock reading
\* (the machine's zone is taken to be UTC).
EpochSecond(t) == t \div TicksPerSecond

\* datetime.utcnow().isoformat(): the reading at full resolution.
IsoFormat(t) == t

\* dict.get(key, default)
Get(d, k, default) == IF k \in DOMAIN d THEN d[k] ELSE default

Range(s) == {s[i] : i \in DOMAIN s}

\* str(problem['id'])
Str(n) == CASE n = 1 -> "1" [] n = 2 -> "2" [] n = 3 -> "3" [] OTHER -> "n"

----------------------------------------------------------------------------
(* Upstream data *)

CreatedAt == "2024-01-01T00:00:00Z"

P1 == [id |-> 1, title |-> "T1", description |-> "D1", category |-> "bug", upvotes |-> 3,
       username |-> "u1", ai_agent_type |-> "x", created_at |-> CreatedAt]
P1b == [id |-> 1, title |-> "T1 again", description |-> "D1", category |-> "bug", upvotes |-> 4,
        username |-> "u1", ai_agent_type |-> "x", created_at |-> CreatedAt]
\* no category, no upvotes: the defaults apply
P2 == [id |-> 2, title |-> "T2", description |-> "D2",
       username |-> "u2", ai_agent_type |-> "y", created_at |-> CreatedAt]
\* no title: problem['title'] raises KeyError
P3 == [id |-> 3, description |-> "D3"]

L1 == [id |-> 1, lesson |-> "a"]
L2 == [id |-> 2, lesson |-> "b"]

Json(d) == [json_ok |-> TRUE, data |-> d]
NotJson == [json_ok |-> FALSE, data |-> [none |-> 0]]

ProblemBodies ==
    { NotJson,
      Json([message |-> "no problems key"]),
      Json([problems |-> <<>>]),
      Json([problems |-> <<P1>>]),
      Json([problems |-> <<P2, P1>>]),
      Json([problems |-> <<P1, P3>>]),
      Json([problems |-> <<P1, P1b>>]) }

LearningBodies ==
    { NotJson,
      Json([learningData |-> <<>>, count |-> 0]),
      Json([learningData |-> <<L1>>, count |-> 1]),
      Json([learningData |-> <<L1, L2>>, count |-> 2]),
      Json([learningData |-> <<L1, L2>>]),
      Json([learningData |-> <<L1>>, count |-> 5]),
      Json([count |-> 2]) }

\* What requests.get can come back with: it raises, or a response with a status.
StatusCodes == {200, 404, 500}
Responses(api) ==
    {[raised |-> TRUE, status_code |-> 0, body |-> api]}
    \cup {[raised |-> FALSE, status_code |-> s, body |-> api] : s \in StatusCodes}

----------------------------------------------------------------------------
(* Results *)

Err(msg, code) == [error |-> msg, code |-> code]
IsError(r) == "error" \in DOMAIN r
IsSuccess(r) == "success" \in DOMAIN r

NoKey == [prefix |-> "", day |-> 0, file |-> "", epoch |-> 0]

\* What an operation hands back to the model: its return value, whether it raised
\* instead, the clock after it, the store and table after it, and what it did
\* (whether it issued the HTTP GET, the status it got, the put_object and put_item
\* calls it made, the key it built, the clock readings it took).
Outcome(result, raised, clock, st, tb, fetched, code, puts, put_items, key, reads) ==
    [result |-> result, raised |-> raised, clock |-> clock, store |-> st, table |-> tb,
     fetched |-> fetched, status_code |-> code, puts |-> puts, put_items |-> put_items,
     key |-> key, reads |-> reads]

----------------------------------------------------------------------------
(* AIHangoutAWSSync *)

NoClients == [s3 |-> FALSE, lambda_client |-> FALSE, bedrock |-> FALSE, dynamodb |-> FALSE]

\* _init_aws_clients: the call named failAt raises ("none": no call does); the
\* handles assigned before it stay set, the others stay None.
FailPoints == {"sts", "s3", "lambda", "bedrock", "dynamodb", "none"}
init_aws_clients(failAt) ==
    [s3            |-> failAt \notin {"sts", "s3"},
     lambda_client |-> failAt \notin {"sts", "s3", "lambda"},
     bedrock       |-> failAt \notin {"sts", "s3", "lambda", "bedrock"},
     dynamodb      |-> failAt = "none"]

\* The guard left out: an operation goes on with a handle that is None.
NotAvailableSkipped(handle) == FALSE

\* `if not self.<client>`
NotAvailable(handle) == ~handle

\* Only server errors taken as failures: a 404 passes as a success.
BadStatusServerOnly(code) == code >= 500

\* `if response.status_code != 200`
BadStatus(code) == code # 200

\* s3.put_object: one object per key, a later put replaces it.
PutObject(st, key, body) == {o \in st : o.Key # key} \cup {[Key |-> key, Body |-> body]}

\* The envelope tagged with the other resource kind's tag.
ProblemsEnvelopeWrongTag(data, t) ==
    [timestamp |-> IsoFormat(t),
     problems |-> Get(data, "problems", <<>>),
     backup_type |-> "ai_learning_data"]

ProblemsEnvelope(data, t) ==
    [timestamp |-> IsoFormat(t),
     problems |-> Get(data, "problems", <<>>),
     backup_type |-> "full_problems_backup"]

ProblemsKey(tDay, tEpoch) ==
    [prefix |-> "ai-hangout/backups/problems", day |-> StrfDay(tDay),
     file |-> "problems", epoch |-> EpochSecond(tEpoch)]

\* backup_problems_to_s3 with the clock reading t0 on entry, the readings t[1]
\* (envelope timestamp), t[2] (key day), t[3] (key epoch) and put_object's outcome.
backup_problems_to_s3(cl, st, tb, t0, resp, t, put) ==
    IF NotAvailable(cl.s3)
    THEN Outcome(Err("AWS S3 not available", 0), FALSE, t0, st, tb, FALSE, 0, 0, 0, NoKey, <<>>)
    ELSE IF resp.raised
    THEN Outcome(Err("Backup failed", 0), FALSE, t0, st, tb, TRUE, 0, 0, 0, NoKey, <<>>)
    ELSE IF BadStatus(resp.status_code)
    THEN Outcome(Err("Failed to fetch problems", resp.status_code), FALSE, t0, st, tb,
                 TRUE, resp.status_code, 0, 0, NoKey, <<>>)
    ELSE IF ~resp.body.json_ok
    THEN Outcome(Err("Backup failed", 0), FALSE, t0, st, tb, TRUE, resp.status_code, 0, 0, NoKey, <<>>)
    ELSE LET backup_data == ProblemsEnvelope(resp.body.data, t[1])
             key == ProblemsKey(t[2], t[3])
         IN IF put = "raise"
            THEN Outcome(Err("Backup failed", 0), FALSE, t[3], st, tb, TRUE,
                         resp.status_code, 1, 0, key, t)
            ELSE Outcome([success |-> TRUE, s3_key |-> key,
                          problems_count |-> Len(backup_data.problems),
                          timestamp |-> backup_data.timestamp],
                         FALSE, t[3], PutObject(st, key, backup_data), tb, TRUE,
                         resp.status_code, 1, 0, key, t)

LearningEnvelope(data, t) ==
    [timestamp |-> IsoFormat(t),
     learning_data |-> Get(data, "learningData", <<>>),
     count |-> Get(data, "count", 0),
     backup_type |-> "ai_learning_data"]

LearningKey(tDay, tEpoch) ==
    [prefix |-> "ai-hangout/ai-learning", day |-> StrfDay(tDay),
     file |-> "learning", epoch |-> EpochSecond(tEpoch)]

backup_analytics_to_s3(cl, st, tb, t0, resp, t, put) ==
    IF NotAvailable(cl.s3)
    THEN Outcome(Err("AWS S3 not available", 0), FALSE, t0, st, tb, FALSE, 0, 0, 0, NoKey, <<>>)
    ELSE IF resp.raised
    THEN Outcome(Err("Analytics backup failed", 0), FALSE, t0, st, tb, TRUE, 0, 0, 0, NoKey, <<>>)
    ELSE IF BadStatus(resp.status_code)
    THEN Outcome(Err("Failed to fetch learning data", resp.status_code), FALSE, t0, st, tb,
                 TRUE, resp.status_code, 0, 0, NoKey, <<>>)
    ELSE IF ~resp.body.json_ok
    THEN Outcome(Err("Analytics backup failed", 0), FALSE, t0, st, tb, TRUE,
                 resp.status_code, 0, 0, NoKey, <<>>)
    ELSE LET learning_backup == LearningEnvelope(resp.body.data, t[1])
             key == LearningKey(t[2], t[3])
         IN IF put = "raise"
            THEN Outcome(Err("Analytics backup failed", 0), FALSE, t[3], st, tb, TRUE,
                         resp.status_code, 1, 0, key, t)
            ELSE Outcome([success |-> TRUE, s3_key |-> key,
                          learning_records |-> learning_backup.count,
                          timestamp |-> learning_backup.timestamp],
                         FALSE, t[3], PutObject(st, key, learning_backup), tb, TRUE,
                         resp.status_code, 1, 0, key, t)

\* A row whose last_sync is never stamped with the clock.
SyncedRowUnstamped(problem, t) ==
    [problem_id |-> Str(problem.id),
     title |-> problem.title,
     description |-> problem.description,
     category |-> Get(problem, "category", "other"),
     upvotes |-> Get(problem, "upvotes", 0),
     username |-> problem.username,
     ai_agent_type |-> problem.ai_agent_type,
     created_at |-> problem.created_at,
     last_sync |-> IsoFormat(0)]

\* The fixed projection of an upstream record onto the table's schema.
SyncedRow(problem, t) ==
    [problem_id |-> Str(problem.id),
     title |-> problem.title,
     description |-> problem.description,
     category |-> Get(problem, "category", "other"),
     upvotes |-> Get(problem, "upvotes", 0),
     username |-> problem.username,
     ai_agent_type |-> problem.ai_agent_type,
     created_at |-> problem.created_at,
     last_sync |-> IsoFormat(t)]

\* The keys the item construction reads with problem[...]: a missing one raises KeyError.
RequiredKeys == {"id", "title", "description", "username", "ai_agent_type", "created_at"}

\* How many leading records the loop turns into items before one raises KeyError.
ItemCount(problems) ==
    LET bad == {i \in 1..Len(problems) : ~(RequiredKeys \subseteq DOMAIN problems[i])}
    IN IF bad = {} THEN Len(problems)
       ELSE (CHOOSE i \in bad : \A j \in bad : i <= j) - 1

\* DynamoDB rejects a BatchWriteItem request that names one key twice.
HasDuplicateKeys(items) ==
    \E i, j \in DOMAIN items : i < j /\ items[i].problem_id = items[j].problem_id

\* The batch writer's flush of the buffered put_item requests: each row replaces
\* the row of the same problem_id.
BatchWrite(tb, items) ==
    {r \in tb : \A i \in DOMAIN items : r.problem_id # items[i].problem_id} \cup Range(items)

\* sync_to_dynamodb with the clock reading t0 on entry, one reading per item
\* (t[i] for the i-th item's last_sync), the reading after the batch (the result's
\* timestamp) and the outcome of the batch writer's flush.
sync_to_dynamodb(cl, st, tb, t0, resp, t, batch) ==
    IF NotAvailable(cl.dynamodb)
    THEN Outcome(Err("AWS DynamoDB not available", 0), FALSE, t0, st, tb, FALSE, 0, 0, 0, NoKey, <<>>)
    ELSE IF resp.raised
    THEN Outcome(Err("DynamoDB sync failed", 0), FALSE, t0, st, tb, TRUE, 0, 0, 0, NoKey, <<>>)
    ELSE IF BadStatus(resp.status_code)
    THEN Outcome(Err("Failed to fetch problems", resp.status_code), FALSE, t0, st, tb,
                 TRUE, resp.status_code, 0, 0, NoKey, <<>>)
    ELSE IF ~resp.body.json_ok
    THEN Outcome(Err("DynamoDB sync failed", 0), FALSE, t0, st, tb, TRUE,
                 resp.status_code, 0, 0, NoKey, <<>>)
    ELSE LET problems == Get(resp.body.data, "problems", <<>>)
             n == Len(problems)
             k == ItemCount(problems)
             items == [i \in 1..k |-> SyncedRow(problems[i], t[i])]
             flushed == k > 0 /\ batch = "ok" /\ ~HasDuplicateKeys(items)
             after == IF flushed THEN BatchWrite(tb, items) ELSE tb
             tItems == IF k > 0 THEN t[k] ELSE t0
         IN IF k < n \/ (k > 0 /\ ~flushed)
            THEN Outcome(Err("DynamoDB sync failed", 0), FALSE, tItems, st, after, TRUE,
                         resp.status_code, 0, k, NoKey, SubSeq(t, 1, k))
            ELSE Outcome([success |-> TRUE, table_name |-> "ai-hangout-problems",
                          synced_problems |-> n,
                          timestamp |-> IsoFormat(t[n + 1])],
                         FALSE, t[n + 1], st, after, TRUE, resp.status_code, 0, k, NoKey,
                         SubSeq(t, 1, n + 1))

\* bedrock.invoke_model: it raises, or answers with a body.
BedrockAnswers ==
    { [raised |-> TRUE, body |-> [none |-> 0]],
      [raised |-> FALSE, body |-> [content |-> <<[text |-> "analysis"]>>, usage |-> 7]],
      [raised |-> FALSE, body |-> [content |-> <<>>]],
      [raised |-> FALSE, body |-> [usage |-> 7]] }

invoke_bedrock_analysis(cl, st, tb, t0, answer) ==
    IF NotAvailable(cl.bedrock)
    THEN Outcome(Err("AWS Bedrock not available", 0), FALSE, t0, st, tb, FALSE, 0, 0, 0, NoKey, <<>>)
    ELSE IF answer.raised
    THEN Outcome(Err("Bedrock analysis failed", 0), FALSE, t0, st, tb, FALSE, 0, 0, 0, NoKey, <<>>)
    ELSE LET content == Get(answer.body, "content", <<[none |-> 0]>>)
         IN IF Len(content) = 0
            THEN Outcome(Err("Bedrock analysis failed", 0), FALSE, t0, st, tb, FALSE, 0, 0, 0, NoKey, <<>>)
            ELSE Outcome([success |-> TRUE, response |-> Get(content[1], "text", ""),
                          usage |-> Get(answer.body, "usage", 0)],
                         FALSE, t0, st, tb, FALSE, 0, 0, 0, NoKey, <<>>)

\* The probe without its try/except: a failing head_bucket leaves get_status as
\* an exception.
ProbeBucketUncaught(probe) == [s3_bucket_accessible |-> probe = "ok", raised |-> probe = "raise"]

\* The try/except around head_bucket: what the probe adds to the status, and
\* whether its failure leaves get_status as an exception.
ProbeBucket(probe) == [s3_bucket_accessible |-> probe = "ok", raised |-> FALSE]

get_status(cl, st, tb, t0, t, probe) ==
    LET status == [timestamp |-> IsoFormat(t),
                   aws_configured |-> cl.s3,
                   services |-> [s3 |-> cl.s3, lambda |-> cl.lambda_client,
                                 bedrock |-> cl.bedrock, dynamodb |-> cl.dynamodb],
                   worker_url |-> "https://aihangout-ai.rblake2320.workers.dev",
                   bucket |-> "ai-army-data"]
    IN IF cl.s3
       THEN Outcome([s3_bucket_accessible |-> ProbeBucket(probe).s3_bucket_accessible] @@ status,
                    ProbeBucket(probe).raised, t, st, tb, FALSE, 0, 0, 0, NoKey, <<t>>)
       ELSE Outcome(status, FALSE, t, st, tb, FALSE, 0, 0, 0, NoKey, <<t>>)

----------------------------------------------------------------------------
(* The client specifications: single operations of one AIHangoutAWSSync *)

NoOp == [op |-> "none", result |-> [none |-> 0], raised |-> FALSE, fetched |-> FALSE,
         status_code |-> 0, puts |-> 0, put_items |-> 0, key |-> NoKey,
         started |-> 0, reads |-> <<>>, probe |-> "none", body |-> NotJson,
         storeBefore |-> {}, tableBefore |-> {}]

\* The record kept of an operation: what it did (out), when it started, what the
\* upstream API served at the time and the state it started from.
OpRecord(name, out, probe, api) ==
    [op |-> name, result |-> out.result, raised |-> out.raised, fetched |-> out.fetched,
     status_code |-> out.status_code, puts |-> out.puts, put_items |-> out.put_items,
     key |-> out.key, started |-> now, reads |-> out.reads, probe |-> probe, body |-> api,
     storeBefore |-> store, tableBefore |-> table]

\* The clock readings of one operation: before each reading the clock advances by
\* adv[i] ticks.
ReadTimes(adv) ==
    <<now + adv[1], now + adv[1] + adv[2], now + adv[1] + adv[2] + adv[3]>>
Advances == {a \in [1..3 -> {0, 1}] : now + a[1] + a[2] + a[3] <= ClockEnd}

Apply(name, out, probe, api) ==
    /\ opCount < MaxOps
    /\ opCount' = opCount + 1
    /\ now' = out.clock
    /\ store' = out.store
    /\ table' = out.table
    /\ prev' = last
    /\ last' = OpRecord(name, out, probe, api)
    /\ UNCHANGED <<clients, problemsApi, learningApi>>
    /\ UNCHANGED schedVars

BackupProblems ==
    \E resp \in Responses(problemsApi), adv \in Advances, put \in {"ok", "raise"} :
        Apply("backup_problems_to_s3",
              backup_problems_to_s3(clients, store, table, now, resp, ReadTimes(adv), put),
              "none", problemsApi)

BackupAnalytics ==
    \E resp \in Responses(learningApi), adv \in Advances, put \in {"ok", "raise"} :
        Apply("backup_analytics_to_s3",
              backup_analytics_to_s3(clients, store, table, now, resp, ReadTimes(adv), put),
              "none", learningApi)

SyncToDynamodb ==
    \E resp \in Responses(problemsApi), adv \in Advances, batch \in {"ok", "raise"} :
        Apply("sync_to_dynamodb",
              sync_to_dynamodb(clients, store, table, now, resp, ReadTimes(adv), batch),
              "none", problemsApi)

InvokeBedrock ==
    \E answer \in BedrockAnswers :
        Apply("invoke_bedrock_analysis",
              invoke_bedrock_analysis(clients, store, table, now, answer), "none", NotJson)

GetStatus ==
    \E adv \in Advances, probe \in {"ok", "raise"} :
        Apply("get_status",
              get_status(clients, store, table, now, ReadTimes(adv)[1], probe),
              probe, NotJson)

\* The upstream API's problem collection changes between two operations.
ApiUpdate ==
    /\ problemsApi' \in ProblemBodies \ {problemsApi}
    /\ UNCHANGED <<now, clients, learningApi, store, table, last, prev, opCount>>
    /\ UNCHANGED schedVars

\* The scheduler is not part of the client specifications.
SchedIdle ==
    /\ pc = "off"
    /\ jobs = <<>>
    /\ pending = <<>>
    /\ running = <<>>
    /\ files = {}
    /\ completed = <<>>
    /\ tick = [none |-> 0]

InitOps(cfgs, pbodies, lbodies) ==
    /\ now = ClockStart
    /\ clients \in cfgs
    /\ problemsApi \in pbodies
    /\ learningApi \in lbodies
    /\ store = {}
    /\ table = {}
    /\ last = NoOp
    /\ prev = NoOp
    /\ opCount = 0
    /\ SchedIdle

\* Every operation, any outcome of client initialisation, one upstream data set.
Init ==
    InitOps({init_aws_clients(f) : f \in FailPoints},
            {Json([problems |-> <<P2, P1>>])},
            {Json([learningData |-> <<L1>>, count |-> 1])})

Next ==
    \/ BackupProblems
    \/ BackupAnalytics
    \/ SyncToDynamodb
    \/ InvokeBedrock
    \/ GetStatus

Spec == Init /\ [][Next]_vars

\* The snapshot writer alone, over every upstream body.
InitBackup ==
    \/ InitOps({init_aws_clients("none"), init_aws_clients("sts")}, ProblemBodies,
               {Json([learningData |-> <<L1>>, count |-> 1])})
    \/ InitOps({init_aws_clients("none")}, {Json([problems |-> <<P1>>])}, LearningBodies)

NextBackup ==
    \/ BackupProblems
    \/ BackupAnalytics

SpecBackup == InitBackup /\ [][NextBackup]_vars

\* The row sync writer alone, over every upstream body, with the upstream
\* collection changing between runs.
InitTable ==
    InitOps({init_aws_clients("none"), init_aws_clients("sts")}, ProblemBodies,
            {Json([learningData |-> <<>>, count |-> 0])})

NextTable ==
    \/ SyncToDynamodb
    \/ ApiUpdate

SpecTable == InitTable /\ [][NextTable]_vars

----------------------------------------------------------------------------
(* backup_scheduler.py: main's poll loop around the schedule library.  A job of  *)
(* the library is due once its period has passed since it last ran (or, before   *)
(* its first run, since it was scheduled); run_pending runs the due jobs one     *)
(* after the other, earliest next_run first, and after each sets its last_run    *)
(* and next_run from the clock.                                                  *)

Jobs == {"coarse", "fine"}
None == 0 - 1

CoarsePeriod == CoarseHours * 3600 * TicksPerSecond
FinePeriod == FineMinutes * 60 * TicksPerSecond
PollTicks == PollSeconds * TicksPerSecond

\* The full backup scheduled every 6 days instead of every 6 hours.
PeriodCoarseInDays(j) == IF j = "coarse" THEN 24 * CoarsePeriod ELSE FinePeriod

\* schedule.every(6).hours / schedule.every(30).minutes
Period(j) == IF j = "coarse" THEN CoarsePeriod ELSE FinePeriod

\* Job.should_run
ShouldRun(job, t) == t >= job.next_run

\* run_pending's sorted(runnable_jobs): the due jobs, earliest next_run first.
DueJobs(js, t) ==
    LET due == {j \in Jobs : ShouldRun(js[j], t)}
    IN IF due = Jobs
       THEN IF js["fine"].next_run <= js["coarse"].next_run
            THEN <<"fine", "coarse">> ELSE <<"coarse", "fine">>
       ELSE IF due = {} THEN <<>>
       ELSE <<CHOOSE j \in due : TRUE>>

\* The job handed to a thread: main goes on dispatching while it runs.
InCallDetached == "dispatch"

\* Where main is while a job it called runs: the call is synchronous.
InCall == "in_job"

\* How long a scheduled action may take: the full backup no time to speak of or a
\* minute, the quick sync no time to speak of.
Durations(j) == IF j = "coarse" THEN {0, PollTicks} ELSE {0}

\* The responses the coarse action's requests meet: during one run each of the two
\* endpoints answers 200 or 500.
SchedStatus == {200, 500}
Response(code, api) == [raised |-> FALSE, status_code |-> code, body |-> api]

\* The quick sync's request is answered 200; the quick sync fails where the
\* credentials are missing or the body served is not JSON.
QuickResponses(api) == {Response(200, api)}

\* AIHangoutAWSSync(): every scheduled action constructs a client of its own.  The
\* credentials of the scheduler's environment are there or not for good, and
\* `clients` holds what initialisation makes of them.
NewClient == init_aws_clients(IF clients.s3 THEN "none" ELSE "sts")

Summary(t, problems_result, analytics_result, dynamodb_result) ==
    [timestamp |-> IsoFormat(t),
     problems_backup |-> problems_result,
     analytics_backup |-> analytics_result,
     dynamodb_sync |-> dynamodb_result]

\* The summary saved only when no sub-result is an error.
WriteSummaryIfAllOk(fs, t, summary) ==
    IF \/ IsError(summary.problems_backup)
       \/ IsError(summary.analytics_backup)
       \/ IsError(summary.dynamodb_sync)
    THEN fs
    ELSE {f \in fs : f.name # EpochSecond(t)} \cup {[name |-> EpochSecond(t), content |-> summary]}

\* open(f"backup_summary_{int(datetime.now().timestamp())}.json", "w") + json.dump
WriteSummary(fs, t, summary) ==
    {f \in fs : f.name # EpochSecond(t)} \cup {[name |-> EpochSecond(t), content |-> summary]}

Idle == [j \in Jobs |-> "idle"]
Unscheduled == [j \in Jobs |-> [next_run |-> None, last_run |-> None]]
NoTick == [coarseDone |-> None, fineDone |-> None,
           coarseSince |-> None, fineSince |-> None, ranCoarse |-> 0, ranFine |-> 0]

\* The poll loop is followed until the clock reaches SchedEnd.
SchedEnd == ClockStart + MaxPolls * PollTicks

\* The process is gone: so are its jobs and whatever it was running; the store,
\* the table and the files stay.
Exit(how) ==
    /\ pc' = how
    /\ running' = Idle
    /\ jobs' = Unscheduled
    /\ pending' = <<>>
    /\ tick' = NoTick

\* schedule.every(...).do(...): both jobs get their first next_run.
ScheduleJobs ==
    /\ pc = "start"
    /\ jobs' = [j \in Jobs |-> [next_run |-> now + Period(j), last_run |-> None]]
    /\ pc' = "warm"
    /\ UNCHANGED <<now, clients, problemsApi, learningApi, store, table, last, prev, opCount,
                   pending, running, files, completed, tick>>

\* main calls run_full_backup() once before the loop; the call takes d ticks.
WarmStart ==
    /\ pc = "warm"
    /\ \E d \in Durations("coarse") : now' = now + d
    /\ running' = [running EXCEPT !["coarse"] = "running"]
    /\ pc' = "in_warm"
    /\ UNCHANGED <<clients, problemsApi, learningApi, store, table, last, prev, opCount,
                   jobs, pending, files, completed, tick>>

\* run_full_backup: a client of its own, the three operations in turn, the summary
\* file.  Writing the file may fail, which ends the process.
RunFullBackup ==
    /\ running["coarse"] = "running"
    /\ pc \notin {"stopped", "crashed"}
    /\ \E sp \in SchedStatus, sl \in SchedStatus, write \in {"ok", "raise"} :
        LET sync == NewClient
            t == <<now, now, now>>
            rp == Response(sp, problemsApi)
            ra == Response(sl, learningApi)
            rd == Response(sp, problemsApi)
            p == backup_problems_to_s3(sync, store, table, now, rp, t, "ok")
            a == backup_analytics_to_s3(sync, p.store, p.table, now, ra, t, "ok")
            d == sync_to_dynamodb(sync, a.store, a.table, now, rd, t, "ok")
            summary == Summary(now, p.result, a.result, d.result)
        IN /\ store' = d.store
           /\ table' = d.table
           /\ IF write = "ok"
              THEN /\ files' = WriteSummary(files, now, summary)
                   /\ completed' = Append(completed,
                          [at |-> now, problems_result |-> p.result,
                           analytics_result |-> a.result, dynamodb_result |-> d.result])
                   /\ running' = [running EXCEPT !["coarse"] = "done"]
                   /\ tick' = [tick EXCEPT !.coarseDone = now]
                   /\ pc' = pc
                   /\ UNCHANGED <<jobs, pending>>
              ELSE /\ Exit("crashed")
                   /\ UNCHANGED <<files, completed>>
    /\ UNCHANGED <<now, clients, problemsApi, learningApi, last, prev, opCount>>

\* run_quick_sync: a client of its own and the table sync alone.
RunQuickSync ==
    /\ running["fine"] = "running"
    /\ pc \notin {"stopped", "crashed"}
    /\ \E rd \in QuickResponses(problemsApi) :
        LET sync == NewClient
            d == sync_to_dynamodb(sync, store, table, now, rd, <<now, now, now>>, "ok")
        IN /\ store' = d.store
           /\ table' = d.table
    /\ running' = [running EXCEPT !["fine"] = "done"]
    /\ tick' = [tick EXCEPT !.fineDone = now]
    /\ UNCHANGED <<now, clients, problemsApi, learningApi, last, prev, opCount,
                   pc, jobs, pending, files, completed>>

\* The initial run_full_backup() returns and main enters the loop.
WarmReturn ==
    /\ pc = "in_warm"
    /\ running["coarse"] = "done"
    /\ running' = [running EXCEPT !["coarse"] = "idle"]
    /\ pc' = "run_pending"
    /\ UNCHANGED <<now, clients, problemsApi, learningApi, store, table, last, prev, opCount,
                   jobs, pending, files, completed, tick>>

\* schedule.run_pending(): which jobs are due at this poll tick.
RunPending ==
    /\ pc = "run_pending"
    /\ pending' = DueJobs(jobs, now)
    /\ tick' = [tick EXCEPT !.coarseSince = now - tick.coarseDone,
                            !.fineSince = IF tick.fineDone = None THEN None
                                          ELSE now - tick.fineDone,
                            !.ranCoarse = 0,
                            !.ranFine = 0]
    /\ pc' = "dispatch"
    /\ UNCHANGED <<now, clients, problemsApi, learningApi, store, table, last, prev, opCount,
                   jobs, running, files, completed>>

\* run_pending calls the next due job; the call takes d ticks.
Dispatch ==
    /\ pc = "dispatch"
    /\ pending # <<>>
    /\ \E d \in Durations(Head(pending)) : now' = now + d
    /\ running' = [running EXCEPT ![Head(pending)] = "running"]
    /\ pending' = Tail(pending)
    /\ tick' = IF Head(pending) = "coarse"
               THEN [tick EXCEPT !.ranCoarse = tick.ranCoarse + 1]
               ELSE [tick EXCEPT !.ranFine = tick.ranFine + 1]
    /\ pc' = InCall
    /\ UNCHANGED <<clients, problemsApi, learningApi, store, table, last, prev, opCount,
                   jobs, files, completed>>

\* The job returns: Job.run sets last_run and next_run from the clock.
JobReturn ==
    /\ pc = "in_job"
    /\ \E j \in Jobs :
        /\ running[j] = "done"
        /\ running' = [running EXCEPT ![j] = "idle"]
        /\ jobs' = [jobs EXCEPT ![j] = [next_run |-> now + Period(j), last_run |-> now]]
    /\ pc' = "dispatch"
    /\ UNCHANGED <<now, clients, problemsApi, learningApi, store, table, last, prev, opCount,
                   pending, files, completed, tick>>

\* time.sleep(60) once the due jobs of the tick have run.
Sleep ==
    /\ pc = "dispatch"
    /\ pending = <<>>
    /\ now + PollTicks <= SchedEnd
    /\ now' = now + PollTicks
    /\ pc' = "run_pending"
    /\ UNCHANGED <<clients, problemsApi, learningApi, store, table, last, prev, opCount,
                   jobs, pending, running, files, completed, tick>>

\* KeyboardInterrupt: the process ends, whatever it was doing.
Interrupt ==
    /\ pc \in {"in_warm", "run_pending", "dispatch", "in_job"}
    /\ Exit("stopped")
    /\ UNCHANGED <<now, clients, problemsApi, learningApi, store, table, last, prev, opCount,
                   files, completed>>

InitSched ==
    /\ now = ClockStart
    /\ clients \in {init_aws_clients("sts"), init_aws_clients("none")}
    /\ problemsApi \in {Json([problems |-> <<P2, P1>>]), NotJson}
    /\ learningApi = Json([learningData |-> <<L1>>, count |-> 1])
    /\ store = {}
    /\ table = {}
    /\ last = NoOp
    /\ prev = NoOp
    /\ opCount = 0
    /\ pc = "start"
    /\ jobs = Unscheduled
    /\ pending = <<>>
    /\ running = Idle
    /\ files = {}
    /\ completed = <<>>
    /\ tick = NoTick

NextSched ==
    \/ ScheduleJobs
    \/ WarmStart
    \/ RunFullBackup
    \/ RunQuickSync
    \/ WarmReturn
    \/ RunPending
    \/ Dispatch
    \/ JobReturn
    \/ Sleep
    \/ Interrupt

SpecSched == InitSched /\ [][NextSched]_vars

----------------------------------------------------------------------------
(* Properties of the client operations *)

FetchingOps == {"backup_problems_to_s3", "backup_analytics_to_s3", "sync_to_dynamodb"}
BackupOps == {"backup_problems_to_s3", "backup_analytics_to_s3"}

\* The operation got an HTTP response whose status is not 200.
GotBadStatus(o) == o.op \in FetchingOps /\ o.fetched /\ o.status_code \notin {0, 200}

\* C1: a run of backup_problems_to_s3, backup_analytics_to_s3 or sync_to_dynamodb
\* whose HTTP GET returns a status other than 200 returns an error result and has
\* performed no put_object and no put_item: the store and the table are as before.
C1_BadStatusWritesNothing ==
    GotBadStatus(last) =>
        /\ IsError(last.result)
        /\ ~last.raised
        /\ last.puts = 0
        /\ last.put_items = 0
        /\ store = last.storeBefore
        /\ table = last.tableBefore

\* A sync that got a 404 after an earlier sync had filled the table.
C1_Witness ==
    /\ last.op = "sync_to_dynamodb"
    /\ last.status_code = 404
    /\ prev.op = "sync_to_dynamodb"
    /\ table # {}

UnavailableMessage(op) ==
    CASE op \in BackupOps -> "AWS S3 not available"
      [] op = "sync_to_dynamodb" -> "AWS DynamoDB not available"
      [] op = "invoke_bedrock_analysis" -> "AWS Bedrock not available"
      [] OTHER -> ""

\* C2: when client initialisation failed at the credentials check, so that every
\* handle is unset, each of backup_problems_to_s3, backup_analytics_to_s3,
\* sync_to_dynamodb and invoke_bedrock_analysis returns its 'not available' error
\* without raising, without the HTTP fetch and without a write to store or table.
C2_NoCredentialsUnavailable ==
    (clients = init_aws_clients("sts") /\ last.op \in FetchingOps \cup {"invoke_bedrock_analysis"}) =>
        /\ ~last.raised
        /\ IsError(last.result)
        /\ last.result.error = UnavailableMessage(last.op)
        /\ ~last.fetched
        /\ last.puts = 0
        /\ last.put_items = 0
        /\ store = {}
        /\ table = {}

\* Without credentials, a sync and then a Bedrock analysis were asked for.
C2_Witness ==
    /\ clients = NoClients
    /\ prev.op = "sync_to_dynamodb"
    /\ last.op = "invoke_bedrock_analysis"

\* C3: get_status never raises: whatever handles are set it returns a status, and
\* when the storage client is set and head_bucket throws, the status returned has
\* s3_bucket_accessible = false.
C3_StatusNeverRaises ==
    last.op = "get_status" =>
        /\ ~last.raised
        /\ {"timestamp", "aws_configured", "services"} \subseteq DOMAIN last.result
        /\ clients.s3 => "s3_bucket_accessible" \in DOMAIN last.result
        /\ (clients.s3 /\ last.probe = "raise") => last.result.s3_bucket_accessible = FALSE

\* A status query with the storage client set (and the table client not) whose
\* head_bucket probe threw.
C3_Witness ==
    /\ last.op = "get_status"
    /\ clients.s3
    /\ ~clients.dynamodb
    /\ last.probe = "raise"

\* Two successful syncs in succession that fetched the same upstream records.
TwoSyncs ==
    /\ prev.op = "sync_to_dynamodb"
    /\ last.op = "sync_to_dynamodb"
    /\ IsSuccess(prev.result)
    /\ IsSuccess(last.result)
    /\ prev.body = last.body

Upstream(o) == Range(Get(o.body.data, "problems", <<>>))
RowsOf(tb, problem) == {r \in tb : r.problem_id = Str(problem.id)}
WithoutLastSync(row) == [f \in DOMAIN row \ {"last_sync"} |-> row[f]]

\* One row per identity key, and the same rows (last_sync apart) as after the
\* first of the two runs.
SameRowsOnePerKey ==
    /\ \A r1, r2 \in table : r1.problem_id = r2.problem_id => r1 = r2
    /\ \A p \in Upstream(last) : Cardinality(RowsOf(table, p)) = 1
    /\ {WithoutLastSync(r) : r \in table} = {WithoutLastSync(r) : r \in last.tableBefore}

\* C4 as claimed: after two syncs of an unchanged upstream the table holds one row
\* per problem_id, the same row set as after the first run, and each row's
\* last_sync equals the timestamp of the later run.
C4_LastSyncIsRunTimestamp ==
    TwoSyncs =>
        /\ SameRowsOnePerKey
        /\ \A p \in Upstream(last) : \A r \in RowsOf(table, p) :
               r.last_sync = last.result.timestamp

\* C4 as amended: ... and each synced row's last_sync is a clock reading of its own,
\* taken during the later run: not before the run started, not after the timestamp
\* the run returns, and not before the last_sync the first run gave the row.
C4_LastSyncWithinLaterRun ==
    TwoSyncs =>
        /\ SameRowsOnePerKey
        /\ \A p \in Upstream(last) : \A r \in RowsOf(table, p) :
               /\ IsoFormat(last.started) <= r.last_sync
               /\ r.last_sync <= last.result.timestamp
               /\ \A old \in RowsOf(last.tableBefore, p) : old.last_sync <= r.last_sync

\* Two syncs of the same two records, the clock having moved on between the first
\* run and the later one.
C4_Witness ==
    /\ TwoSyncs
    /\ Cardinality(table) = 2
    /\ \E r \in table : \E old \in last.tableBefore :
           old.problem_id = r.problem_id /\ old.last_sync < r.last_sync

SuccessfulBackup(o) == o.op \in BackupOps /\ IsSuccess(o.result)

\* A backup invocation that started and wrote within one day.
WithinDay(o, d) == StrfDay(o.started) = d /\ StrfDay(o.reads[3]) = d

\* C8: the key of a snapshot backup is prefixed by the day on which the write
\* occurred, and two invocations for the same resource kind within the same day
\* produce keys that differ only in the trailing timestamp segment, identical only
\* when both fall within the same second.
C8_KeyPrefixedByWriteDay ==
    /\ SuccessfulBackup(last) => last.key.day = StrfDay(last.reads[3])
    /\ (/\ SuccessfulBackup(prev)
        /\ SuccessfulBackup(last)
        /\ prev.op = last.op
        /\ \E d \in {StrfDay(last.started)} : WithinDay(prev, d) /\ WithinDay(last, d)) =>
           /\ prev.key.prefix = last.key.prefix
           /\ prev.key.day = last.key.day
           /\ prev.key.file = last.key.file
           /\ prev.key = last.key => EpochSecond(prev.reads[3]) = EpochSecond(last.reads[3])

Payload(o, body) ==
    IF o.op = "backup_problems_to_s3" THEN body.problems ELSE body.learning_data
Fetched(o) ==
    IF o.op = "backup_problems_to_s3"
    THEN Get(o.body.data, "problems", <<>>)
    ELSE Get(o.body.data, "learningData", <<>>)
TagOf(op) ==
    IF op = "backup_problems_to_s3" THEN "full_problems_backup" ELSE "ai_learning_data"

\* The objects the store holds under the key the operation built.
Written(o) == {obj \in store : obj.Key = o.key}

\* C9: for a successful fetch of n records by a snapshot backup, the envelope
\* written to the store carries exactly those n records as its payload and the
\* backup_type tag of the requested resource kind.
C9_EnvelopeCarriesFetchedRecords ==
    SuccessfulBackup(last) =>
        /\ Cardinality(Written(last)) = 1
        /\ \A obj \in Written(last) :
               /\ Payload(last, obj.Body) = Fetched(last)
               /\ Len(Payload(last, obj.Body)) = Len(Fetched(last))
               /\ obj.Body.backup_type = TagOf(last.op)

\* A problems backup of two records after an analytics backup of one.
C9_Witness ==
    /\ SuccessfulBackup(last)
    /\ last.op = "backup_problems_to_s3"
    /\ Len(Fetched(last)) = 2
    /\ SuccessfulBackup(prev)
    /\ prev.op = "backup_analytics_to_s3"
    /\ Cardinality(store) = 2

ReportedCount(o) ==
    IF o.op = "backup_problems_to_s3" THEN o.result.problems_count ELSE o.result.learning_records

\* C10: for both resource kinds the record count of a successful backup result
\* equals the number of records in the payload of the envelope the invocation wrote.
C10_CountIsPayloadLength ==
    SuccessfulBackup(last) =>
        \A obj \in Written(last) : ReportedCount(last) = Len(Payload(last, obj.Body))

----------------------------------------------------------------------------
(* Properties of the scheduler *)

\* The poll tick is over: every job that was due has been run and has returned.
TickOver == pc = "dispatch" /\ pending = <<>>

\* C5: a poll tick at which the clock has advanced exactly 6 hours since the last
\* coarse run (its completion: the warm start's, or a scheduled run's last_run)
\* triggers exactly one coarse action and, if at least 30 minutes have passed since
\* the last fine action, exactly one fine action in the same tick.
C5_ExactPeriodTriggersOnce ==
    /\ tick.ranCoarse <= 1
    /\ tick.ranFine <= 1
    /\ (TickOver /\ tick.coarseSince = CoarsePeriod) =>
           /\ tick.ranCoarse = 1
           /\ (tick.fineSince # None /\ tick.fineSince >= FinePeriod) => tick.ranFine = 1

\* A tick exactly 6 hours after a scheduled coarse run, the fine action being due
\* as well: both have run.
C5_Witness ==
    /\ TickOver
    /\ tick.coarseSince = CoarsePeriod
    /\ tick.fineSince >= FinePeriod
    /\ tick.ranCoarse = 1
    /\ tick.ranFine = 1
    /\ Len(completed) = 3

InProgress == {j \in Jobs : running[j] # "idle"}

\* C6: the scheduler never starts a scheduled action while a previous one is still
\* running: at most one of the coarse action (the warm start included) and the fine
\* action is in progress, and actions due in the same tick run one after the other.
C6_OneActionAtATime ==
    /\ Cardinality(InProgress) <= 1
    /\ InProgress # {} => pc \in {"in_warm", "in_job"}

\* Both actions were due in one tick: the fine action has returned and the coarse
\* action is running.
C6_Witness ==
    /\ running["coarse"] = "running"
    /\ running["fine"] = "idle"
    /\ tick.ranFine = 1
    /\ tick.ranCoarse = 1

SummaryKeys == {"timestamp", "problems_backup", "analytics_backup", "dynamodb_sync"}

\* The summary file of a completed coarse action: named after the second it was
\* written in, holding that run's three sub-results and nothing else but the
\* timestamp.
SummaryOf(run) ==
    {f \in files :
        /\ f.name = EpochSecond(run.at)
        /\ DOMAIN f.content = SummaryKeys
        /\ f.content.timestamp = IsoFormat(run.at)
        /\ f.content.problems_backup = run.problems_result
        /\ f.content.analytics_backup = run.analytics_result
        /\ f.content.dynamodb_sync = run.dynamodb_result}

\* C7: every completed coarse action (the warm start and each scheduled run) has
\* written one timestamped summary file containing exactly the three sub-results of
\* that run, also when some or all of them are error results; a fine action writes
\* no summary file (there are as many files as completed coarse actions).
C7_SummaryPerCoarseRun ==
    /\ \A i \in DOMAIN completed : Cardinality(SummaryOf(completed[i])) = 1
    /\ Cardinality(files) = Len(completed)

AllErrors(run) ==
    IsError(run.problems_result) /\ IsError(run.analytics_result) /\ IsError(run.dynamodb_result)
SomeErrors(run) ==
    /\ IsError(run.analytics_result)
    /\ IsSuccess(run.problems_result)
    /\ IsSuccess(run.dynamodb_result)

\* The warm start failed in all three sub-results, the scheduled run after it in
\* one, and fine actions have run in between.
C7_Witness ==
    /\ Len(completed) = 2
    /\ AllErrors(completed[1])
    /\ SomeErrors(completed[2])
    /\ jobs["fine"].last_run # None
    /\ Cardinality(files) = 2

====
